---- MODULE Spec2Model ----
(***************************************************************************)
(* Model of maxfield/router.py: class Router (constructor and              *)
(* route_agents) with its three paths: round-robin fallback when OR-Tools  *)
(* cannot be imported, the single-agent chain, and the OR-Tools vehicle    *)
(* routing model.  The OR-Tools solver is an external library: its answer  *)
(* is modelled as a nondeterministic choice among the assignments that     *)
(* satisfy the routing model the code builds, or no assignment at all.     *)
(*                                                                         *)
(* A link is a pair <<origin, dest>> of node ids.  A 'depends' list holds  *)
(* links and node ids; a node id n is written as the 1-tuple <<n>> so that *)
(* both kinds live in one set.                                             *)
(***************************************************************************)
EXTENDS Integers, Sequences, FiniteSets, TLC

\* ---------------------------------------------------------------- constants
\* router.py module constants
WALKSPEED == 1
COMMTIME == 30
LINKTIME == 30
\* slack_max and capacity of the 'time' dimension (routing.AddDimension)
Horizon == 1000000

\* ------------------------------------------------------------------- bounds
MaxLinks == 3
MaxAgents == 2
MaxDeps == 1

\* Distance matrices the caller may pass (row = from node, column = to node):
\* nodes 1 and 2 are 10 apart both ways, the other pairs differ by direction.
DistMixed == << <<0, 10, 20>>, <<10, 0, 5>>, <<45, 50, 0>> >>
\* A malformed matrix: it has negative entries.
DistNeg == << <<0, -5, 20>>, <<-5, 0, 5>>, <<20, 5, 0>> >>

DistMatrices == {DistMixed}
MalformedMatrices == {DistNeg}
Nodes == DOMAIN DistMixed

\* The links a graph may hold: two of them share the origin 1.
Edges == {<<1, 2>>, <<1, 3>>, <<2, 3>>, <<3, 1>>}

VARIABLES
    HAS_ORTOOLS,            \* module flag set by the import attempt
    graph,                  \* edge |-> [order, depends]
    portals_dists,          \* the caller's distance matrix
    num_agents,
    ordered_links,          \* Router attributes set by __init__
    ordered_origins,
    ordered_links_depends,
    pc,                     \* position of the call
    i,                      \* loop index of the running loop (0-based)
    t,                      \* clock of the fallback loop
    depart,                 \* 'depart' local of the single-agent loop
    assignments,            \* the list being built
    ordered_cut_origins,    \* origin of each stop (run of same-origin links)
    count_cut_origins,      \* number of links of each stop
    naive_route,            \* the routes the solver is seeded with
    solution,               \* the solver's answer, when it gave one
    solver_calls,           \* number of times the solver was invoked
    result,                 \* the returned list
    error,                  \* the exception raised, "" when none
    peer,                   \* a second Router and its call, while not running
    jm                      \* app.py job_manager(): the job registry and its futures

vars == <<HAS_ORTOOLS, graph, portals_dists, num_agents, ordered_links,
          ordered_origins, ordered_links_depends, pc, i, t, depart,
          assignments, ordered_cut_origins, count_cut_origins, naive_route, solution,
          solver_calls, result, error, peer, jm>>

inputs == <<HAS_ORTOOLS, graph, portals_dists, num_agents>>
attrs == <<ordered_links, ordered_origins, ordered_links_depends>>
cut == <<ordered_cut_origins, count_cut_origins, naive_route>>
router == <<inputs, attrs, pc, i, t, depart, assignments, cut, solution, solver_calls,
           result, error, peer>>

\* ------------------------------------------------------------ input domains
RECURSIVE KSubsets(_, _)
KSubsets(S, k) ==
    IF k = 0 THEN {{}}
    ELSE LET smaller == KSubsets(S, k - 1)
         IN  smaller \cup {T \cup {x} : T \in smaller, x \in S}

LinkLists ==
    UNION {{s \in [1..n -> Edges] : \A a, b \in 1..n : a # b => s[a] # s[b]}
           : n \in 0..MaxLinks}

\* What the 'depends' list of the link at position j may name: another link
\* of the graph, or a node.
DepPairs(s) ==
    {p \in (DOMAIN s) \X {s[k] : k \in DOMAIN s} : p[2] # s[p[1]]}
    \cup {<<j, <<n>> >> : j \in DOMAIN s, n \in Nodes}

MakeGraph(s, D) ==
    [e \in {s[j] : j \in DOMAIN s} |->
        LET j == CHOOSE k \in DOMAIN s : s[k] = e
        IN  [order |-> j - 1, depends |-> {p[2] : p \in {q \in D : q[1] = j}}]]

Graphs ==
    UNION {{MakeGraph(s, D) : D \in KSubsets(DepPairs(s), MaxDeps)} : s \in LinkLists}

NoSolution == [routes |-> <<>>, cumul |-> <<>>]

\* Everything one Router and its call own: the module flag HAS_ORTOOLS is
\* the only state two Routers share.
Instance ==
    [graph |-> graph, portals_dists |-> portals_dists, num_agents |-> num_agents,
     ordered_links |-> ordered_links, ordered_origins |-> ordered_origins,
     ordered_links_depends |-> ordered_links_depends, pc |-> pc, i |-> i,
     t |-> t, depart |-> depart, assignments |-> assignments,
     ordered_cut_origins |-> ordered_cut_origins,
     count_cut_origins |-> count_cut_origins, naive_route |-> naive_route,
     solution |-> solution,
     solver_calls |-> solver_calls, result |-> result, error |-> error]

NewInstance(g, d, n) ==
    [graph |-> g, portals_dists |-> d, num_agents |-> n,
     ordered_links |-> <<>>, ordered_origins |-> <<>>,
     ordered_links_depends |-> <<>>, pc |-> "new", i |-> 0,
     t |-> 0, depart |-> 0, assignments |-> <<>>,
     ordered_cut_origins |-> <<>>, count_cut_origins |-> <<>>, naive_route |-> <<>>,
     solution |-> NoSolution, solver_calls |-> 0, result |-> <<>>, error |-> ""]

\* No second Router.
NoPeer == [NewInstance(<<>>, <<>>, 1) EXCEPT !.pc = "none"]


\* ------------------------------------------------ app.py: the job manager
\* Bounds of the job model: job ids handed out, the clock, the max_jobs
\* arguments tried.
MaxJobIds == 3
MaxNow == 4800
MaxJobsArg == 2

\* prune_jobs: defaults of max_jobs and max_age_s, and the age after which a
\* done job goes.
DefaultMaxJobs == 5
DefaultMaxAge == 3600
DoneAge == 300

\* The steps time.time() advances by, and the max_age_s arguments tried.
Ticks == {1200}
MaxAges == {1000, DefaultMaxAge}

\* No prune_jobs call yet.
NoPrune == [called |-> FALSE, max_jobs |-> 0, max_age_s |-> 0, cancel_called |-> {}]

\* job_manager() before any job: jobs maps a job id to its record (t0,
\* done); futures holds the state of every Future the executor was given;
\* last, right after a prune_jobs call, its arguments and the ids whose
\* Future.cancel() it called.
NoJobs ==
    [jobs |-> <<>>, futures |-> [id \in 1..MaxJobIds |-> "none"], now |-> 0,
     next_id |-> 1, last |-> NoPrune]

\* Lines 722-725: the jobs past max_age_s, or done and past DoneAge.
Expired(jobs, now, max_age_s) ==
    {id \in DOMAIN jobs :
        \/ now - jobs[id].t0 > max_age_s
        \/ (jobs[id].done /\ now - jobs[id].t0 > DoneAge)}

\* alive.sort(key=t0): a stable sort of the ids of S, which the dict holds
\* in insertion order, the order of the ids.
RECURSIVE SortByT0(_, _)
SortByT0(jobs, S) ==
    IF S = {} THEN <<>>
    ELSE LET first == CHOOSE a \in S : \A b \in S \ {a} :
                          \/ jobs[a].t0 < jobs[b].t0
                          \/ (jobs[a].t0 = jobs[b].t0 /\ a < b)
         IN  <<first>> \o SortByT0(jobs, S \ {first})

\* s[:stop] of a Python list: a negative stop counts from the end, and -0
\* is 0.
SliceUpTo(s, stop) ==
    LET end == IF stop < 0 THEN (IF Len(s) + stop > 0 THEN Len(s) + stop ELSE 0)
               ELSE (IF stop < Len(s) THEN stop ELSE Len(s))
    IN  SubSeq(s, 1, end)

\* Lines 726-730: the oldest of the alive jobs beyond max_jobs.
Extras(jobs, alive, max_jobs) ==
    IF Cardinality(alive) > max_jobs
    THEN LET cut_off == SliceUpTo(SortByT0(jobs, alive), 0 - max_jobs)
         IN  {cut_off[k] : k \in DOMAIN cut_off}
    ELSE {}

ToDel(jobs, now, max_jobs, max_age_s) ==
    LET expired == Expired(jobs, now, max_age_s)
    IN  expired \cup Extras(jobs, DOMAIN jobs \ expired, max_jobs)

\* prune_jobs(max_jobs, max_age_s) on the job manager m (lines 718-736):
\* every job to delete has its Future cancelled unless the Future is done (a
\* pending Future becomes cancelled, a running one keeps running) and is
\* popped from the registry.
Pruned(m, max_jobs, max_age_s) ==
    LET gone == ToDel(m.jobs, m.now, max_jobs, max_age_s)
        asked == {id \in gone : m.futures[id] \in {"pending", "running"}}
        kept == [id \in DOMAIN m.jobs \ gone |-> m.jobs[id]]
    IN  [m EXCEPT
            !.jobs = kept,
            !.futures = [id \in DOMAIN m.futures |->
                            IF id \in asked /\ m.futures[id] = "pending"
                            THEN "cancelled" ELSE m.futures[id]],
            !.last = [called |-> TRUE, max_jobs |-> max_jobs,
                      max_age_s |-> max_age_s, cancel_called |-> asked]]

prune_jobs ==
    /\ \E max_jobs \in 0..MaxJobsArg : \E max_age_s \in MaxAges :
          jm' = Pruned(jm, max_jobs, max_age_s)
    /\ UNCHANGED <<HAS_ORTOOLS, router>>

\* start_job (lines 746-752): prune with the defaults, submit, register.
start_job ==
    /\ jm.next_id <= MaxJobIds
    /\ LET m == Pruned(jm, DefaultMaxJobs, DefaultMaxAge)
           job_id == jm.next_id
       IN  jm' = [m EXCEPT
                     !.jobs = [id \in DOMAIN m.jobs \cup {job_id} |->
                                  IF id = job_id THEN [t0 |-> m.now, done |-> FALSE]
                                  ELSE m.jobs[id]],
                     !.futures[job_id] = "pending",
                     !.next_id = job_id + 1,
                     !.last = NoPrune]
    /\ UNCHANGED <<HAS_ORTOOLS, router>>

\* ThreadPoolExecutor(max_workers=1) (line 715): one Future runs at a time.
RunJob ==
    /\ \A id \in DOMAIN jm.futures : jm.futures[id] # "running"
    /\ \E id \in DOMAIN jm.futures :
          /\ jm.futures[id] = "pending"
          /\ \A other \in DOMAIN jm.futures :
                jm.futures[other] = "pending" => id <= other
          /\ jm' = [jm EXCEPT !.futures[id] = "running", !.last = NoPrune]
    /\ UNCHANGED <<HAS_ORTOOLS, router>>

FinishJob ==
    /\ \E id \in DOMAIN jm.futures :
          /\ jm.futures[id] = "running"
          /\ jm' = [jm EXCEPT !.futures[id] = "finished", !.last = NoPrune]
    /\ UNCHANGED <<HAS_ORTOOLS, router>>

\* Lines 1078-1110: the page marks a job done once its Future is done, or
\* when the user cancels it: cancel() takes a pending Future to cancelled
\* and leaves a running one running.
MarkDone ==
    /\ \E id \in DOMAIN jm.jobs :
          /\ ~jm.jobs[id].done
          /\ jm' = [jm EXCEPT
                       !.jobs[id].done = TRUE,
                       !.futures[id] = IF @ = "pending" THEN "cancelled" ELSE @,
                       !.last = NoPrune]
    /\ UNCHANGED <<HAS_ORTOOLS, router>>

\* time.time() advances.
Tick ==
    /\ \E d \in Ticks :
          /\ jm.now + d <= MaxNow
          /\ jm' = [jm EXCEPT !.now = jm.now + d, !.last = NoPrune]
    /\ UNCHANGED <<HAS_ORTOOLS, router>>

InitLocals ==
    /\ ordered_links = <<>>
    /\ ordered_origins = <<>>
    /\ ordered_links_depends = <<>>
    /\ pc = "new"
    /\ i = 0
    /\ t = 0
    /\ depart = 0
    /\ assignments = <<>>
    /\ ordered_cut_origins = <<>>
    /\ count_cut_origins = <<>>
    /\ naive_route = <<>>
    /\ solution = NoSolution
    /\ solver_calls = 0
    /\ result = <<>>
    /\ error = ""

Init ==
    /\ HAS_ORTOOLS \in BOOLEAN
    /\ graph \in Graphs
    /\ portals_dists \in DistMatrices
    /\ num_agents \in 1..MaxAgents
    /\ InitLocals
    /\ jm = NoJobs
    /\ peer = NoPeer

\* --------------------------------------------------------- Router.__init__
\* sorted(zip(link_orders, edges)): ascending 'order', ties by the edge tuple.
TupleLess(a, b) == a[1] < b[1] \/ (a[1] = b[1] /\ a[2] < b[2])
\* Mutant: the sort key compared the wrong way round (descending order).
SortKeyLess_Reversed(g, a, b) ==
    g[a].order > g[b].order \/ (g[a].order = g[b].order /\ TupleLess(b, a))

\* Mutant: equal orders are broken by the edge tuple the wrong way round.
SortKeyLess_TieReversed(g, a, b) ==
    g[a].order < g[b].order \/ (g[a].order = g[b].order /\ TupleLess(b, a))

SortKeyLess(g, a, b) ==
    g[a].order < g[b].order \/ (g[a].order = g[b].order /\ TupleLess(a, b))

RECURSIVE SortLinks(_, _)
SortLinks(g, S) ==
    IF S = {} THEN <<>>
    ELSE LET first == CHOOSE a \in S : \A b \in S \ {a} : SortKeyLess(g, a, b)
         IN  <<first>> \o SortLinks(g, S \ {first})

Construct ==
    /\ pc = "new"
    /\ LET links == SortLinks(graph, DOMAIN graph)
       IN  /\ ordered_links' = links
           /\ ordered_origins' = [k \in DOMAIN links |-> links[k][1]]
           /\ ordered_links_depends' = [k \in DOMAIN links |-> graph[links[k]].depends]
    /\ pc' = "ready"
    /\ UNCHANGED <<jm, peer, inputs, i, t, depart, assignments, cut, solution, solver_calls,
                   result, error>>

\* ----------------------------------------------------- Router.route_agents
\* Mutant: the departure is the arrival.
Assignment_DepartIsArrive(agent, location, arrive, link, dep) ==
    [agent |-> agent, location |-> location, arrive |-> arrive,
     link |-> link, depart |-> arrive]

Assignment(agent, location, arrive, link, dep) ==
    [agent |-> agent, location |-> location, arrive |-> arrive,
     link |-> link, depart |-> dep]



\* sorted(assignments, key=arrive): a stable sort, by insertion.
RECURSIVE InsertByArrive(_, _)
InsertByArrive(sorted, a) ==
    IF sorted = <<>> THEN <<a>>
    ELSE IF sorted[Len(sorted)].arrive <= a.arrive THEN Append(sorted, a)
    ELSE Append(InsertByArrive(SubSeq(sorted, 1, Len(sorted) - 1), a),
                sorted[Len(sorted)])


\* Mutant: the list is returned in the order it was built.
SortByArrive_AsBuilt(s) == s

RECURSIVE SortByArrive(_)
SortByArrive(s) ==
    IF s = <<>> THEN <<>>
    ELSE InsertByArrive(SortByArrive(SubSeq(s, 1, Len(s) - 1)), s[Len(s)])

\* Mutant: the availability of the library is not looked at.
Mode_NoFallbackCheck ==
    IF num_agents = 1 THEN "single" ELSE "optimized"

\* The branch taken on entry (lines 87, 113).
Mode ==
    IF ~HAS_ORTOOLS THEN "fallback"
    ELSE IF num_agents = 1 THEN "single"
    ELSE "optimized"

Call ==
    /\ pc = "ready"
    /\ pc' = Mode
    /\ i' = 0
    /\ t' = 0
    /\ assignments' = <<>>
    /\ UNCHANGED <<jm, peer, inputs, attrs, depart, cut, solution, solver_calls, result, error>>



\* Mutant: the clock is offset by the clock of the other call.
FallbackAssignment_SharedClock(k, clock) ==
    LET link == ordered_links[k + 1]
    IN  Assignment(k % num_agents, link[1], clock + peer.t, link[2],
                   clock + peer.t + LINKTIME)


\* Mutant: every agent has a clock of its own, so the agents link in
\* parallel.
FallbackAssignment_PerAgentClock(k, clock) ==
    LET link == ordered_links[k + 1]
        own == (k \div num_agents) * LINKTIME
    IN  Assignment(k % num_agents, link[1], own, link[2], own + LINKTIME)

\* Mutant: the loop index is the agent, without the modulo.
FallbackAssignment_NoModulo(k, clock) ==
    LET link == ordered_links[k + 1]
    IN  Assignment(k, link[1], clock, link[2], clock + LINKTIME)

\* Mutant: the round-robin counts from 1 instead of 0.
FallbackAssignment_FromOne(k, clock) ==
    LET link == ordered_links[k + 1]
    IN  Assignment((k + 1) % num_agents, link[1], clock, link[2], clock + LINKTIME)

\* One iteration of the fallback loop (lines 91-105).
FallbackAssignment(k, clock) ==
    LET link == ordered_links[k + 1]
    IN  Assignment(k % num_agents, link[1], clock, link[2], clock + LINKTIME)



\* Mutant: the loop index advances by two.
FallbackIter_SkipsOne ==
    /\ pc = "fallback"
    /\ i < Len(ordered_links)
    /\ assignments' = Append(assignments, FallbackAssignment(i, t))
    /\ t' = t + LINKTIME
    /\ i' = i + 2
    /\ UNCHANGED <<jm, peer, inputs, attrs, pc, depart, cut, solution, solver_calls, result, error>>

\* Mutant: the loop consumes the Router's list of origins as it goes.
FallbackIter_Consumes ==
    /\ pc = "fallback"
    /\ i < Len(ordered_links)
    /\ assignments' = Append(assignments, FallbackAssignment(i, t))
    /\ t' = t + LINKTIME
    /\ i' = i + 1
    /\ ordered_origins' = Tail(ordered_origins)
    /\ UNCHANGED <<jm, peer, inputs, ordered_links, ordered_links_depends, pc, depart, cut,
                   solution, solver_calls, result, error>>

FallbackIter ==
    /\ pc = "fallback"
    /\ i < Len(ordered_links)
    /\ assignments' = Append(assignments, FallbackAssignment(i, t))
    /\ t' = t + LINKTIME
    /\ i' = i + 1
    /\ UNCHANGED <<jm, peer, inputs, attrs, pc, depart, cut, solution, solver_calls, result, error>>

\* Lines 107-108.
FallbackReturn ==
    /\ pc = "fallback"
    /\ i = Len(ordered_links)
    /\ result' = SortByArrive(assignments)
    /\ assignments' = SortByArrive(assignments)
    /\ pc' = "returned"
    /\ UNCHANGED <<jm, peer, inputs, attrs, i, t, depart, cut, solution, solver_calls, error>>


\* Mutant: the travel time is read in the opposite direction.
SingleArrive_TravelReversed(k, prev_depart) ==
    IF k = 0 THEN 0
    ELSE prev_depart +
         (portals_dists[ordered_links[k + 1][1]][ordered_links[k][1]] \div WALKSPEED)

\* Mutant: the travel time is left out of the chain.
SingleArrive_NoTravel(k, prev_depart) ==
    IF k = 0 THEN 0 ELSE prev_depart

\* One iteration of the single-agent loop (lines 115-129).
SingleArrive(k, prev_depart) ==
    IF k = 0 THEN 0
    ELSE prev_depart +
         (portals_dists[ordered_links[k][1]][ordered_links[k + 1][1]] \div WALKSPEED)

SingleIter ==
    /\ pc = "single"
    /\ i < Len(ordered_links)
    /\ LET arrive == SingleArrive(i, depart)
           link == ordered_links[i + 1]
       IN  /\ depart' = arrive + LINKTIME
           /\ assignments' = Append(assignments,
                  Assignment(0, link[1], arrive, link[2], arrive + LINKTIME))
    /\ i' = i + 1
    /\ UNCHANGED <<jm, peer, inputs, attrs, pc, t, cut, solution, solver_calls, result, error>>

\* Line 130: the list is returned as built.
SingleReturn ==
    /\ pc = "single"
    /\ i = Len(ordered_links)
    /\ result' = assignments
    /\ pc' = "returned"
    /\ UNCHANGED <<jm, peer, inputs, attrs, i, t, depart, assignments, cut, solution,
                   solver_calls, error>>

\* ------------------------------------------------- the routing model

\* Mutant: every action is a run of its own.
GroupBy_Singletons(s) == [k \in DOMAIN s |-> <<s[k], 1>>]

\* itertools.groupby over ordered_origins: <<origin, run length>> per run.
RECURSIVE GroupBy(_)
GroupBy(s) ==
    IF s = <<>> THEN <<>>
    ELSE LET rest == GroupBy(SubSeq(s, 1, Len(s) - 1))
             last == s[Len(s)]
         IN  IF rest # <<>> /\ rest[Len(rest)][1] = last
             THEN [rest EXCEPT ![Len(rest)] = <<last, @[2] + 1>>]
             ELSE Append(rest, <<last, 1>>)

\* Routing nodes are 0 (the dummy depot) and 1..NumStops (the stops).
NumStops == Len(ordered_cut_origins)

\* origins_dists with the depot row and column: rows run over o2 and columns
\* over o1 of portals_dists[o1][o2] (lines 137-143).
origins_dists(row, col) ==
    IF row = 0 \/ col = 0 THEN 0
    ELSE portals_dists[ordered_cut_origins[col]][ordered_cut_origins[row]]

\* time_callback (lines 32-57)
action_time(node) ==
    IF node = 0 THEN 0 ELSE count_cut_origins[node] * LINKTIME
travel_time(from_node, to_node) ==
    origins_dists(from_node, to_node) \div WALKSPEED
\* Mutant: the time spent linking at the stop left is not charged.
total_time_TravelOnly(from_node, to_node) ==
    travel_time(from_node, to_node)
total_time(from_node, to_node) ==
    action_time(from_node) + travel_time(from_node, to_node)

RECURSIVE SumTo(_, _)
SumTo(f, k) == IF k = 0 THEN 0 ELSE f[k] + SumTo(f, k - 1)

\* Positions (1-based) in ordered_links of the links of stop 'node'
\* (this_link, this_size of lines 167-170; linki of line 223).
StopLinks(node) ==
    LET first == SumTo(count_cut_origins, node - 1)
    IN  (first + 1)..(first + count_cut_origins[node])

\* Lines 172-180: some link of stop k, or its origin, is named by the
\* 'depends' of some link of stop k + 1.
DependencyConflict(k) ==
    \E linki \in StopLinks(k) : \E linkj \in StopLinks(k + 1) :
        \/ ordered_links[linki] \in ordered_links_depends[linkj]
        \/ <<ordered_links[linki][1]>> \in ordered_links_depends[linkj]


\* Mutant: a conflict asks only for the linking time of the earlier stop,
\* without the communication delay.
PrecedenceBound_NoComm(k, c) ==
    IF DependencyConflict(k)
    THEN c + count_cut_origins[k] * LINKTIME
    ELSE c

\* Mutant: stops without a conflict get no constraint.
PrecedenceBound_NoWeak(k, c) ==
    IF DependencyConflict(k)
    THEN c + count_cut_origins[k] * LINKTIME + COMMTIME + 1
    ELSE 0

\* The least cumul the constraint added for stops k and k + 1 allows at
\* stop k + 1 when stop k has cumul c: strictly more than c plus the linking
\* time of stop k plus COMMTIME on a conflict (lines 187-191), c otherwise
\* (lines 182-184).
PrecedenceBound(k, c) ==
    IF DependencyConflict(k)
    THEN c + count_cut_origins[k] * LINKTIME + COMMTIME + 1
    ELSE c

\* The constraints added to the solver for adjacent stops (lines 163-191).
PrecedenceOK(cumul) ==
    \A k \in 1..(NumStops - 1) : cumul[k + 1] >= PrecedenceBound(k, cumul[k])


\* Mutant: a vehicle may not wait: every cumul is exactly the previous one
\* plus the transit.
RouteOK_NoWaiting(route, cumul) ==
    /\ \A k \in DOMAIN route :
          LET prev == IF k = 1 THEN 0 ELSE cumul[route[k - 1]]
              from == IF k = 1 THEN 0 ELSE route[k - 1]
          IN  /\ cumul[route[k]] = prev + total_time(from, route[k])
              /\ cumul[route[k]] <= Horizon
    /\ route # <<>> =>
          cumul[route[Len(route)]] + total_time(route[Len(route)], 0) <= Horizon

\* The 'time' dimension along one vehicle's route (lines 158, 195): the
\* start is fixed at 0, each cumul is the previous one plus the transit plus
\* a slack in 0..Horizon, and no cumul exceeds the capacity.
RouteOK(route, cumul) ==
    /\ \A k \in DOMAIN route :
          LET prev == IF k = 1 THEN 0 ELSE cumul[route[k - 1]]
              from == IF k = 1 THEN 0 ELSE route[k - 1]
              slack == cumul[route[k]] - prev - total_time(from, route[k])
          IN  /\ slack >= 0
              /\ slack <= Horizon
              /\ cumul[route[k]] <= Horizon
    /\ route # <<>> =>
          cumul[route[Len(route)]] + total_time(route[Len(route)], 0) <= Horizon

\* Every stop is visited exactly once, by exactly one vehicle.
RoutesCoverStops(routes) ==
    \A node \in 1..NumStops :
        Cardinality({p \in UNION {{<<v, k>> : k \in DOMAIN routes[v]} : v \in DOMAIN routes}
                     : routes[p[1]][p[2]] = node}) = 1

Feasible(routes, cumul) ==
    /\ RoutesCoverStops(routes)
    /\ \A v \in DOMAIN routes : RouteOK(routes[v], cumul)
    /\ PrecedenceOK(cumul)

\* ---------------------------------------------------------- the solver
\* Candidate answers of routing.SolveFromAssignmentWithParameters: every
\* split of the stops over the vehicles, each vehicle taking its stops in
\* ascending order, with solution.Min of each cumul the earliest time the
\* model allows on those routes.  (PrecedenceOK makes the cumuls
\* non-decreasing in the stop index and every transit between two stops is
\* positive, so a route that visits a stop before one of lower index
\* satisfies no cumul.)  Only candidates that satisfy the whole model
\* (Feasible) are answers.
Max(a, b) == IF a >= b THEN a ELSE b

RECURSIVE Ascending(_, _)
Ascending(S, k) ==
    IF k = 0 THEN <<>>
    ELSE IF k \in S THEN Append(Ascending(S, k - 1), k) ELSE Ascending(S, k - 1)

CandidateRoutes ==
    {[v \in 0..(num_agents - 1) |->
         Ascending({k \in 1..NumStops : vehicle[k] = v}, NumStops)]
     : vehicle \in [1..NumStops -> 0..(num_agents - 1)]}

\* The stop visited just before 'node' on its route, 0 (the depot) if none.
RoutePred(routes, node) ==
    LET v == CHOOSE w \in DOMAIN routes : \E k \in DOMAIN routes[w] : routes[w][k] = node
        k == CHOOSE j \in DOMAIN routes[v] : routes[v][j] = node
    IN  IF k = 1 THEN 0 ELSE routes[v][k - 1]

RECURSIVE EarliestCumul(_, _)
EarliestCumul(routes, k) ==
    IF k = 0 THEN <<>>
    ELSE LET c == EarliestCumul(routes, k - 1)
             pred == RoutePred(routes, k)
             byRoute == IF pred = 0 THEN total_time(0, k)
                        ELSE c[pred] + total_time(pred, k)
             byPrecedence ==
                 IF k = 1 THEN 0 ELSE PrecedenceBound(k - 1, c[k - 1])
         IN  Append(c, Max(byRoute, byPrecedence))

Solutions ==
    {sol \in {[routes |-> r, cumul |-> EarliestCumul(r, NumStops)] : r \in CandidateRoutes}
     : Feasible(sol.routes, sol.cumul)}

\* s[start::step] of a Python list, start counted from 0.
RECURSIVE Slice(_, _, _)
Slice(s, start, step) ==
    IF start >= Len(s) THEN <<>>
    ELSE <<s[start + 1]>> \o Slice(s, start + step, step)

\* Mutant: the slices start one stop late.
NaiveRoute_FromSecond(nstops) ==
    [v \in 0..(num_agents - 1) |-> Slice([k \in 1..nstops |-> k], v + 1, num_agents)]

\* Line 207: list(range(1, len(origins_dists)))[i::num_agents] for each
\* agent i, over the stops 1..nstops.
NaiveRoute(nstops) ==
    [v \in 0..(num_agents - 1) |-> Slice([k \in 1..nstops |-> k], v, num_agents)]

\* Lines 132-134: grouping; zip(*[]) of an empty list cannot be unpacked
\* into two names.  Lines 136-208 build the model and the naive seed.
BuildModel ==
    /\ pc = "optimized"
    /\ IF ordered_origins = <<>>
       THEN /\ pc' = "raised"
            /\ error' = "ValueError: not enough values to unpack"
            /\ UNCHANGED cut
       ELSE /\ pc' = "solve"
            /\ error' = error
            /\ ordered_cut_origins' =
                  [k \in DOMAIN GroupBy(ordered_origins) |-> GroupBy(ordered_origins)[k][1]]
            /\ count_cut_origins' =
                  [k \in DOMAIN GroupBy(ordered_origins) |-> GroupBy(ordered_origins)[k][2]]
            /\ naive_route' = NaiveRoute(Len(GroupBy(ordered_origins)))
    /\ UNCHANGED <<jm, peer, inputs, attrs, i, t, depart, assignments, solution,
                   solver_calls, result>>


\* Mutant: all links of a stop arrive at the stop's cumul.
ExtractStop_Simultaneous(agent, node, cumul) ==
    LET first == SumTo(count_cut_origins, node - 1)
    IN  [k \in 1..count_cut_origins[node] |->
            LET link == ordered_links[first + k]
            IN  Assignment(agent, link[1], cumul[node], link[2], cumul[node] + LINKTIME)]

\* Mutant: only the first link of a stop is emitted.
ExtractStop_FirstOnly(agent, node, cumul) ==
    LET first == SumTo(count_cut_origins, node - 1)
    IN  [k \in 1..1 |->
            LET link == ordered_links[first + k]
                arrive == cumul[node] + (k - 1) * LINKTIME
            IN  Assignment(agent, link[1], arrive, link[2], arrive + LINKTIME)]

\* Lines 224-233: the links of one stop, back to back from the stop's cumul.
ExtractStop(agent, node, cumul) ==
    LET first == SumTo(count_cut_origins, node - 1)
    IN  [k \in 1..count_cut_origins[node] |->
            LET link == ordered_links[first + k]
                arrive == cumul[node] + (k - 1) * LINKTIME
            IN  Assignment(agent, link[1], arrive, link[2], arrive + LINKTIME)]

RECURSIVE ExtractRoute(_, _, _)
ExtractRoute(agent, route, cumul) ==
    IF route = <<>> THEN <<>>
    ELSE ExtractStop(agent, route[1], cumul) \o ExtractRoute(agent, Tail(route), cumul)

\* Lines 217-234: agents 0..n in turn; n = num_agents - 1 at the top call.
RECURSIVE ExtractAgents(_, _)
ExtractAgents(sol, n) ==
    IF n < 0 THEN <<>>
    ELSE ExtractAgents(sol, n - 1) \o ExtractRoute(n, sol.routes[n], sol.cumul)

\* Lines 211-237, the solver returns an assignment: extract, sort, return.
SolveFound ==
    /\ pc = "solve"
    /\ \E sol \in Solutions :
          /\ solution' = sol
          /\ assignments' = SortByArrive(ExtractAgents(sol, num_agents - 1))
          /\ result' = assignments'
    /\ solver_calls' = solver_calls + 1
    /\ pc' = "returned"
    /\ UNCHANGED <<jm, peer, inputs, attrs, i, t, depart, cut, error>>

\* Mutant: without a solution the call returns what it has instead of raising.
SolveNone_Degrades ==
    /\ pc = "solve"
    /\ solver_calls' = solver_calls + 1
    /\ pc' = "returned"
    /\ result' = assignments
    /\ UNCHANGED <<jm, peer, inputs, attrs, i, t, depart, assignments, cut, solution, error>>

\* Lines 211-213, the search ends without an assignment.
SolveNone ==
    /\ pc = "solve"
    /\ solver_calls' = solver_calls + 1
    /\ pc' = "raised"
    /\ error' = "ValueError: No valid assignments found"
    /\ UNCHANGED <<jm, peer, inputs, attrs, i, t, depart, assignments, cut, solution, result>>

Next ==
    \/ Construct
    \/ Call
    \/ FallbackIter
    \/ FallbackReturn
    \/ SingleIter
    \/ SingleReturn
    \/ BuildModel
    \/ SolveFound
    \/ SolveNone

Spec == Init /\ [][Next]_vars

\* The same program called with a malformed distance matrix.
InitMalformed ==
    /\ HAS_ORTOOLS \in BOOLEAN
    /\ graph \in Graphs
    /\ portals_dists \in MalformedMatrices
    /\ num_agents \in 1..MaxAgents
    /\ InitLocals
    /\ jm = NoJobs
    /\ peer = NoPeer

SpecMalformed == InitMalformed /\ [][Next]_vars

\* The fallback loop is straight-line synchronous code: once the call is in
\* it, its next iteration, or its return, is eventually executed.
\* The fallback loop reads no 'depends': the graphs are every list of links
\* up to MaxLinks, without dependencies.
InitFair ==
    /\ HAS_ORTOOLS \in BOOLEAN
    /\ graph \in {MakeGraph(s, {}) : s \in LinkLists}
    /\ portals_dists \in DistMatrices
    /\ num_agents \in 1..MaxAgents
    /\ InitLocals
    /\ jm = NoJobs
    /\ peer = NoPeer

SpecFair ==
    InitFair /\ [][Next]_vars /\ WF_vars(FallbackIter) /\ WF_vars(FallbackReturn)

\* ------------------------------------------------- two independent calls


\* ------------------------------------------------ graphs with equal orders
\* networkx lets several edges carry the same 'order': graphs of up to
\* MaxLinks edges with every 'order' in 0..1, each edge depending on its
\* target node.
TieGraphs ==
    UNION {{[e \in S |-> [order |-> o[e], depends |-> {<<e[2]>>}]] : o \in [S -> 0..1]}
           : S \in KSubsets(Edges, MaxLinks)}

InitTies ==
    /\ HAS_ORTOOLS \in BOOLEAN
    /\ graph \in TieGraphs
    /\ portals_dists \in DistMatrices
    /\ num_agents \in 1..MaxAgents
    /\ InitLocals
    /\ jm = NoJobs
    /\ peer = NoPeer

SpecTies == InitTies /\ [][Next]_vars


\* ------------------------------------------------ the app's job registry
\* The job manager on its own: no Router call is in progress.
InitJobs ==
    /\ HAS_ORTOOLS = TRUE
    /\ graph = MakeGraph(<<>>, {})
    /\ portals_dists = DistMixed
    /\ num_agents = 1
    /\ InitLocals
    /\ jm = NoJobs
    /\ peer = NoPeer

NextJobs ==
    \/ start_job
    \/ prune_jobs
    \/ RunJob
    \/ FinishJob
    \/ MarkDone
    \/ Tick

SpecJobs == InitJobs /\ [][NextJobs]_vars

\* Mutant: the clock t is one variable for both calls.
Switch_SharedClock ==
    /\ peer.pc # "none"
    /\ peer' = Instance
    /\ graph' = peer.graph
    /\ portals_dists' = peer.portals_dists
    /\ num_agents' = peer.num_agents
    /\ ordered_links' = peer.ordered_links
    /\ ordered_origins' = peer.ordered_origins
    /\ ordered_links_depends' = peer.ordered_links_depends
    /\ pc' = peer.pc
    /\ i' = peer.i
    /\ depart' = peer.depart
    /\ assignments' = peer.assignments
    /\ ordered_cut_origins' = peer.ordered_cut_origins
    /\ count_cut_origins' = peer.count_cut_origins
    /\ naive_route' = peer.naive_route
    /\ solution' = peer.solution
    /\ solver_calls' = peer.solver_calls
    /\ result' = peer.result
    /\ error' = peer.error
    /\ UNCHANGED <<jm, HAS_ORTOOLS, t>>

\* Two Routers, each with its own call, run interleaved: each Router's
\* attributes and each call's locals belong to it alone, so a switch of
\* the running call puts the whole Instance aside and resumes the other.
Switch ==
    /\ peer.pc # "none"
    /\ peer' = Instance
    /\ graph' = peer.graph
    /\ portals_dists' = peer.portals_dists
    /\ num_agents' = peer.num_agents
    /\ ordered_links' = peer.ordered_links
    /\ ordered_origins' = peer.ordered_origins
    /\ ordered_links_depends' = peer.ordered_links_depends
    /\ pc' = peer.pc
    /\ i' = peer.i
    /\ t' = peer.t
    /\ depart' = peer.depart
    /\ assignments' = peer.assignments
    /\ ordered_cut_origins' = peer.ordered_cut_origins
    /\ count_cut_origins' = peer.count_cut_origins
    /\ naive_route' = peer.naive_route
    /\ solution' = peer.solution
    /\ solver_calls' = peer.solver_calls
    /\ result' = peer.result
    /\ error' = peer.error
    /\ UNCHANGED <<jm, HAS_ORTOOLS>>

\* The graphs the two Routers are built on.
PairLinkLists ==
    {<< <<1, 2>>, <<1, 3>> >>, << <<3, 1>>, <<1, 2>>, <<2, 3>> >>}
PairGraphs == {MakeGraph(s, {}) : s \in PairLinkLists}

InitPair ==
    /\ HAS_ORTOOLS \in BOOLEAN
    /\ graph \in PairGraphs
    /\ portals_dists \in DistMatrices
    /\ num_agents \in 1..MaxAgents
    /\ InitLocals
    /\ jm = NoJobs
    /\ peer \in {NewInstance(g, d, n) :
                    g \in PairGraphs, d \in DistMatrices, n \in 1..MaxAgents}

NextPair ==
    \/ Next
    \/ Switch

SpecPair == InitPair /\ [][NextPair]_vars

\* ===================================================================
\* Properties
\* ===================================================================
Returned == pc = "returned"

\* The k-th action (1-based) of the input's global order: the edge with
\* k - 1 edges of smaller 'order'.
ActionAt(k) ==
    CHOOSE e \in DOMAIN graph :
        Cardinality({f \in DOMAIN graph : graph[f].order < graph[e].order}) = k - 1
NumActions == Cardinality(DOMAIN graph)

\* The action an assignment performs, and the assignments of an action.
ActionOf(a) == <<a.location, a.link>>
AssignmentsOf(e) == {j \in DOMAIN result : ActionOf(result[j]) = e}
AssignmentOf(e) == result[CHOOSE j \in DOMAIN result : ActionOf(result[j]) = e]

\* The assignments of one agent, in output order.
IsAgent(a, x) == x.agent = a
AgentTimeline(a) == SelectSeq(result, LAMBDA x : IsAgent(a, x))

\* The caller's travel time from node a to node b.
TravelTime(a, b) == portals_dists[a][b] \div WALKSPEED

\* Every prerequisite action precedes its dependents in the global order.
OrderRespectsDepends ==
    \A x \in DOMAIN graph : \A y \in graph[x].depends \cap DOMAIN graph :
        graph[y].order < graph[x].order

\* C1: a returned list holds exactly one assignment per input action, in
\* every mode: none is omitted and none appears twice.
C1_Coverage ==
    Returned =>
        /\ Len(result) = NumActions
        /\ \A e \in DOMAIN graph : Cardinality(AssignmentsOf(e)) = 1

C1_Witness ==
    /\ Returned
    /\ Mode = "optimized"
    /\ Len(result) = MaxLinks
    /\ \E k \in DOMAIN count_cut_origins : count_cut_origins[k] > 1
    /\ \A a \in 0..(num_agents - 1) : AgentTimeline(a) # <<>>

\* C2: whenever action X names action Y in its dependency set, X arrives no
\* earlier than Y departs, plus the communication delay when X and Y are
\* assigned to different agents; in every mode and for every such pair.
C2_DependencyRespect ==
    (Returned /\ OrderRespectsDepends) =>
        \A x \in DOMAIN graph : \A y \in graph[x].depends \cap DOMAIN graph :
            LET ax == AssignmentOf(x)
                ay == AssignmentOf(y)
            IN  ax.arrive >= ay.depart + (IF ax.agent # ay.agent THEN COMMTIME ELSE 0)

\* The single-agent chain over the returned list: the first action arrives
\* at 0, each later one arrives at the previous depart plus the travel
\* time between the two origins, every depart is arrive + LINKTIME, and the
\* elapsed time is the closed-form sum.
RECURSIVE TravelSum(_)
TravelSum(k) ==
    IF k <= 1 THEN 0
    ELSE TravelSum(k - 1) + TravelTime(ActionAt(k - 1)[1], ActionAt(k)[1])

ChainedByTravel ==
    /\ \A k \in 1..NumActions :
          LET a == AssignmentOf(ActionAt(k))
          IN  /\ a.depart = a.arrive + LINKTIME
              /\ a.arrive = IF k = 1 THEN 0
                            ELSE AssignmentOf(ActionAt(k - 1)).depart
                                 + TravelTime(ActionAt(k - 1)[1], ActionAt(k)[1])
    /\ NumActions > 0 =>
          AssignmentOf(ActionAt(NumActions)).depart
              = NumActions * LINKTIME + TravelSum(NumActions)

\* C3 as stated: whenever num_agents = 1 the returned times are chained by
\* travel time.
C3_SingleAgentChain_Original ==
    (Returned /\ num_agents = 1) => ChainedByTravel

\* C3 as amended: whenever num_agents = 1 and the optimization library is
\* available, the returned times are chained by travel time and the total
\* elapsed time is the sum of the action durations and the travel times
\* between consecutive origins.
C3_SingleAgentChain ==
    (Returned /\ num_agents = 1 /\ HAS_ORTOOLS) => ChainedByTravel

C3_Witness ==
    /\ Returned
    /\ Mode = "single"
    /\ Len(result) = MaxLinks
    /\ TravelSum(NumActions) > 0
    /\ result[Len(result)].depart = NumActions * LINKTIME + TravelSum(NumActions)

\* C4: whenever num_agents = 1 the returned list holds the actions in the
\* input global order, all with agent 0.
C4_SingleAgentOrder ==
    (Returned /\ num_agents = 1) =>
        /\ Len(result) = NumActions
        /\ \A k \in DOMAIN result :
              /\ ActionOf(result[k]) = ActionAt(k)
              /\ result[k].agent = 0

C4_Witness ==
    /\ Returned
    /\ num_agents = 1
    /\ Len(result) = MaxLinks
    /\ \E k \in DOMAIN result : k > 1 /\ TupleLess(ActionOf(result[k]), ActionOf(result[k - 1]))

\* C5: for a fixed agent, each of its assignments arrives no earlier than
\* the depart of its previous one plus the travel time between the two
\* locations; in every mode, the fallback included.
C5_TravelRespect ==
    Returned =>
        \A a \in 0..(num_agents - 1) :
            LET line == AgentTimeline(a)
            IN  \A k \in 2..Len(line) :
                    line[k].arrive >= line[k - 1].depart
                        + TravelTime(line[k - 1].location, line[k].location)

\* C6: for every agent, each of its assignments arrives no earlier than the
\* depart of its previous one, in every mode.
C6_MonotonicTimeline ==
    Returned =>
        \A a \in 0..(num_agents - 1) :
            LET line == AgentTimeline(a)
            IN  \A k \in 2..Len(line) : line[k].arrive >= line[k - 1].depart

C6_Witness ==
    /\ Returned
    /\ Mode = "optimized"
    /\ \E a \in 0..(num_agents - 1) :
          LET line == AgentTimeline(a)
          IN  /\ Len(line) >= 2
              /\ line[1].location # line[2].location
              /\ line[2].arrive > line[1].depart

\* C7: when the solver returns no solution the call raises: no list is
\* returned, no assignment is produced, and the solver is not tried again.
C7_NoSolutionRaises ==
    (solver_calls > 0 /\ solution = NoSolution) =>
        /\ pc = "raised"
        /\ error = "ValueError: No valid assignments found"
        /\ result = <<>>
        /\ assignments = <<>>
        /\ solver_calls = 1

C7_Witness ==
    /\ solver_calls = 1
    /\ solution = NoSolution
    /\ pc = "raised"
    /\ Solutions # {}

\* C8: with a malformed distance matrix the call fails before any
\* scheduling or solver work: no assignment is built, the solver is not
\* invoked and no list is returned.  (Checked under SpecMalformed.)
C8_MalformedRejected ==
    /\ assignments = <<>>
    /\ solver_calls = 0
    /\ ~Returned

\* C9: when the optimization library cannot be loaded the call raises
\* nothing, never reaches the solver, and returns the round-robin schedule.
C9_UnavailableIsNoError ==
    ~HAS_ORTOOLS =>
        /\ error = ""
        /\ solver_calls = 0
        /\ pc \in {"new", "ready", "fallback", "returned"}
        /\ Returned =>
              /\ Len(result) = NumActions
              /\ \A k \in DOMAIN result : result[k].agent = (k - 1) % num_agents

C9_Witness ==
    /\ ~HAS_ORTOOLS
    /\ Returned
    /\ num_agents = MaxAgents
    /\ Len(result) = MaxLinks

\* C10: in fallback mode the i-th action of the global order (0-based) gets
\* agent i mod num_agents, arrive i * LINKTIME, depart arrive + LINKTIME,
\* location its origin and link its target, whatever the distances.
C10_FallbackRoundRobin ==
    (Returned /\ ~HAS_ORTOOLS) =>
        /\ Len(result) = NumActions
        /\ \A k \in DOMAIN result :
              result[k] = Assignment((k - 1) % num_agents, ActionAt(k)[1],
                                     (k - 1) * LINKTIME, ActionAt(k)[2],
                                     (k - 1) * LINKTIME + LINKTIME)

C10_Witness ==
    /\ Returned
    /\ ~HAS_ORTOOLS
    /\ num_agents = MaxAgents
    /\ Len(result) = MaxLinks
    /\ result[2].agent # result[1].agent

\* C13: the returned list is sorted by arrive, non-decreasing, in every mode
\* (the distances of DistMatrices are all non-negative).
C13_SortedByArrive ==
    Returned =>
        \A k \in 1..(Len(result) - 1) : result[k].arrive <= result[k + 1].arrive

\* An optimized run whose sorted list interleaves the agents: the list as
\* extracted, agent after agent, never has a higher agent before a lower one.
C13_Witness ==
    /\ Returned
    /\ HAS_ORTOOLS
    /\ num_agents > 1
    /\ \E k \in 1..(Len(result) - 1) : result[k].agent > result[k + 1].agent

\* C14: every returned assignment, in every mode, departs LINKTIME after it
\* arrives.
C14_DepartAfterLinkTime ==
    Returned => \A k \in DOMAIN result : result[k].depart = result[k].arrive + LINKTIME

C14_Witness ==
    /\ Returned
    /\ HAS_ORTOOLS
    /\ num_agents > 1
    /\ Len(result) = MaxLinks
    /\ result[Len(result)].arrive > 0

\* C16: the agent of every returned assignment is an integer of
\* 0..num_agents-1, in every mode.
C16_AgentInRange ==
    Returned => \A k \in DOMAIN result : result[k].agent \in 0..(num_agents - 1)

\* A fallback run with more actions than agents, where the round-robin
\* wraps around.
C16_Witness ==
    /\ Returned
    /\ ~HAS_ORTOOLS
    /\ num_agents = MaxAgents
    /\ Len(result) > num_agents
    /\ result[Len(result)].agent = (Len(result) - 1) % num_agents
    /\ \E k \in DOMAIN result : result[k].agent = num_agents - 1

\* C15: no step of route_agents, up to and including its return or its
\* raise, changes the graph, the distance matrix, num_agents or the Router's
\* ordered_links, ordered_origins and ordered_links_depends; the constructor
\* leaves its arguments as they are.
C15_NoSideEffects ==
    [][/\ inputs' = inputs
       /\ (pc # "new") => (attrs' = attrs)]_vars

\* A call that ended, by return or by raise, on a Router that still has the
\* attributes its constructor computed from the unchanged graph.
C15_Witness ==
    /\ pc \in {"returned", "raised"}
    /\ Len(ordered_links) = MaxLinks
    /\ ordered_links = SortLinks(graph, DOMAIN graph)
    /\ ordered_origins = [k \in DOMAIN ordered_links |-> ordered_links[k][1]]
    /\ \E k \in DOMAIN ordered_links :
          /\ ordered_links_depends[k] # {}
          /\ ordered_links_depends[k] = graph[ordered_links[k]].depends

\* The optimized path was taken.
Optimized == HAS_ORTOOLS /\ num_agents > 1

\* The stops of the global order as the output shows them: the scheduled
\* time of stop k is the arrival of its first action, its agent the agent
\* of that action.
StopFirst(k) == AssignmentOf(ordered_links[SumTo(count_cut_origins, k - 1) + 1])
StopTime(k) == StopFirst(k).arrive
StopAgent(k) == StopFirst(k).agent

\* Some action of stop k + 1 lists an action of stop k, or the origin node
\* of stop k, in its dependency set.
StopDependsOnPrevious(k) ==
    \E a \in StopLinks(k) : \E b \in StopLinks(k + 1) :
        LET deps == graph[ordered_links[b]].depends
        IN  ordered_links[a] \in deps \/ <<ordered_links[a][1]>> \in deps

\* C19: in optimized mode, when a stop depends on the stop right before it
\* in the global order, it is scheduled no earlier than that stop's time
\* plus LINKTIME per action of that stop plus COMMTIME, on the same agent or
\* on another.
C19_HardPrecedence ==
    (Returned /\ Optimized) =>
        \A k \in 1..(NumStops - 1) :
            StopDependsOnPrevious(k) =>
                StopTime(k + 1) >=
                    StopTime(k) + count_cut_origins[k] * LINKTIME + COMMTIME

\* A dependent stop served by another agent than its prerequisite: only
\* the precedence constraint holds it back.
C19_Witness ==
    /\ Returned
    /\ Optimized
    /\ \E k \in 1..(NumStops - 1) :
          /\ StopDependsOnPrevious(k)
          /\ StopAgent(k + 1) # StopAgent(k)
          /\ StopTime(k + 1) = StopTime(k) + count_cut_origins[k] * LINKTIME + COMMTIME + 1

\* C20: in optimized mode the scheduled times of the stops are
\* non-decreasing along the global stop order: no stop starts before a stop
\* that precedes it, with or without a dependency between them.
C20_StopTimesNonDecreasing ==
    (Returned /\ Optimized) =>
        \A j, k \in 1..NumStops : j < k => StopTime(j) <= StopTime(k)

\* A stop without a dependency on the stop before it, served by another
\* agent and held back to that stop's time by the weak constraint alone.
C20_Witness ==
    /\ Returned
    /\ Optimized
    /\ \E k \in 1..(NumStops - 1) :
          /\ ~StopDependsOnPrevious(k)
          /\ StopAgent(k + 1) # StopAgent(k)
          /\ StopTime(k) > 0
          /\ StopTime(k + 1) = StopTime(k)

\* C11: a call that enters the fallback loop always reaches its return,
\* having run exactly one iteration per action of the graph (none for the
\* empty graph) and raised nothing.
C11_FallbackTerminates ==
    (pc = "fallback") ~> (/\ pc = "returned"
                          /\ i = NumActions
                          /\ Len(result) = NumActions
                          /\ error = "")

C11_Witness ==
    /\ Returned
    /\ ~HAS_ORTOOLS
    /\ i = MaxLinks
    /\ NumActions = MaxLinks
    /\ error = ""

\* The two calls were given equal inputs.
EqualInputs ==
    /\ peer.graph = graph
    /\ peer.portals_dists = portals_dists
    /\ peer.num_agents = num_agents

\* C12: two fallback runs on equal inputs (graph, distance matrix,
\* num_agents) return the same list, element for element in the same order.
C12_FallbackDeterminism ==
    (~HAS_ORTOOLS /\ Returned /\ peer.pc = "returned" /\ EqualInputs) =>
        result = peer.result

C12_Witness ==
    /\ ~HAS_ORTOOLS
    /\ Returned
    /\ peer.pc = "returned"
    /\ EqualInputs
    /\ num_agents = MaxAgents
    /\ Len(result) = MaxLinks
    /\ Len(peer.result) = MaxLinks

\* What a call returns when it runs alone, as a function of its inputs:
\* the round-robin list, the single-agent chain, or the sorted extraction
\* of one of the solver's assignments.
RECURSIVE SingleAlone(_)
SingleAlone(k) ==
    IF k = 0 THEN <<>>
    ELSE LET prev == SingleAlone(k - 1)
             arrive == IF k = 1 THEN 0
                       ELSE prev[k - 1].depart +
                            TravelTime(ActionAt(k - 1)[1], ActionAt(k)[1])
         IN  Append(prev, Assignment(0, ActionAt(k)[1], arrive, ActionAt(k)[2],
                                     arrive + LINKTIME))

FallbackAlone ==
    [k \in 1..NumActions |->
        Assignment((k - 1) % num_agents, ActionAt(k)[1], (k - 1) * LINKTIME,
                   ActionAt(k)[2], k * LINKTIME)]

AloneResults ==
    IF ~HAS_ORTOOLS THEN {FallbackAlone}
    ELSE IF num_agents = 1 THEN {SingleAlone(NumActions)}
    ELSE {SortByArrive(ExtractAgents(sol, num_agents - 1)) : sol \in Solutions}

\* C17: under every interleaving of two calls on separate Routers, each
\* call that returns returns a result it can return when run alone: no
\* step of one call changes what the other computes.
C17_IndependentCalls ==
    Returned => result \in AloneResults

\* A call that ran from start to return while the other call was suspended
\* in the middle of its loop.
C17_Witness ==
    /\ Returned
    /\ Len(result) = MaxLinks
    /\ peer.pc \in {"fallback", "single"}
    /\ peer.i > 0
    /\ peer.i < Len(peer.ordered_links)

\* C18: a call that took the fallback path leaves an indication of it in
\* what it hands back.  The call hands back the returned list and nothing
\* else (it raises nothing, logs nothing and sets no attribute), so the
\* indication has to be in the list: for one agent the list differs from
\* the list the same inputs give when the library is available.
C18_DegradedIsIndicated ==
    (Returned /\ ~HAS_ORTOOLS /\ num_agents = 1) =>
        result # SingleAlone(NumActions)

\* The routing model and the seed have been built and are about to be
\* handed to the solver (lines 132-208).
ModelBuilt == pc = "solve"

\* C21: the time the optimized model charges from stop a to stop b is the
\* linking time of a (LINKTIME per action of a) plus the caller's travel
\* time from a's node to b's node, in that direction; the depot (node 0) has
\* no linking time and no travel to or from any stop.
C21_CostModel ==
    ModelBuilt =>
        \A a, b \in 0..NumStops :
            total_time(a, b) =
                (IF a = 0 THEN 0 ELSE count_cut_origins[a] * LINKTIME)
                + (IF a = 0 \/ b = 0 THEN 0
                   ELSE TravelTime(ordered_cut_origins[a], ordered_cut_origins[b]))

\* C22: the stops are the maximal runs of consecutive actions with one
\* origin: the runs are contiguous and in order (run k covers the positions
\* after the first k - 1 runs), non-empty, their sizes sum to the number of
\* actions, every action of a run has the run's origin, and adjacent runs
\* have different origins.
C22_Grouping ==
    ModelBuilt =>
        /\ Len(count_cut_origins) = Len(ordered_cut_origins)
        /\ \A k \in 1..NumStops : count_cut_origins[k] >= 1
        /\ SumTo(count_cut_origins, NumStops) = NumActions
        /\ \A k \in 1..NumStops :
              \A j \in (SumTo(count_cut_origins, k - 1) + 1)..SumTo(count_cut_origins, k) :
                  ActionAt(j)[1] = ordered_cut_origins[k]
        /\ \A k \in 1..(NumStops - 1) :
              ordered_cut_origins[k] # ordered_cut_origins[k + 1]

\* A node whose actions are not consecutive gives two stops.
C22_Witness ==
    /\ ModelBuilt
    /\ NumStops = 3
    /\ ordered_cut_origins[1] = ordered_cut_origins[3]

\* C23: in optimized mode every stop on an agent's route emits exactly the
\* actions of its run, with that agent: the k-th action of the stop
\* (k = 0, 1, ...) arrives at the stop's arrival time plus k * LINKTIME, and
\* nothing else is emitted.
C23_Extraction ==
    (Returned /\ Optimized) =>
        /\ Len(result) = NumActions
        /\ \A v \in DOMAIN solution.routes :
              \A p \in DOMAIN solution.routes[v] :
                  LET node == solution.routes[v][p]
                  IN  \A k \in 0..(count_cut_origins[node] - 1) :
                          LET e == ordered_links[SumTo(count_cut_origins, node - 1) + 1 + k]
                          IN  /\ Cardinality(AssignmentsOf(e)) = 1
                              /\ AssignmentOf(e).agent = v
                              /\ AssignmentOf(e).arrive =
                                    solution.cumul[node] + k * LINKTIME

\* A stop of two actions reached after another stop of the same agent.
C23_Witness ==
    /\ Returned
    /\ Optimized
    /\ \E v \in DOMAIN solution.routes :
          /\ Len(solution.routes[v]) = 2
          /\ count_cut_origins[solution.routes[v][2]] = 2
          /\ solution.cumul[solution.routes[v][2]] > 0

\* C24: the seed is a round-robin split of the stops: there is one route
\* per agent, stop k (1-based, global stop order) is on the route of agent
\* (k - 1) mod num_agents and on no other, every route lists its stops in
\* ascending order, and the depot (node 0) is on no route.
C24_NaiveSeed ==
    ModelBuilt =>
        /\ DOMAIN naive_route = 0..(num_agents - 1)
        /\ \A k \in 1..NumStops : \A v \in DOMAIN naive_route :
              (\E p \in DOMAIN naive_route[v] : naive_route[v][p] = k)
                  <=> (v = (k - 1) % num_agents)
        /\ \A v \in DOMAIN naive_route : \A p, q \in DOMAIN naive_route[v] :
              /\ naive_route[v][p] \in 1..NumStops
              /\ (p < q) => (naive_route[v][p] < naive_route[v][q])

\* More stops than agents: the split wraps around.
C24_Witness ==
    /\ ModelBuilt
    /\ num_agents = MaxAgents
    /\ NumStops > num_agents
    /\ Len(naive_route[0]) = 2
    /\ naive_route[0][2] = 1 + num_agents

\* C25: the seed is feasible for the model it is given to: the earliest
\* stop times along the seed routes start every agent at 0, respect each
\* route's transits with waiting, stay within Horizon (every schedule of the
\* inputs considered fits in it) and satisfy every adjacent-stop precedence
\* constraint.
C25_SeedFeasible ==
    ModelBuilt =>
        /\ RoutesCoverStops(naive_route)
        /\ Feasible(naive_route, EarliestCumul(naive_route, NumStops))

\* A seed that puts a dependent stop on another agent than its
\* prerequisite: the agent has to wait for the precedence constraint.
C25_Witness ==
    /\ pc = "solve"
    /\ NumStops >= 2
    /\ DependencyConflict(1)
    /\ RoutePred(naive_route, 2) = 0
    /\ EarliestCumul(naive_route, NumStops)[2] > total_time(0, 2)

\* One of the two fast paths was taken: the fallback, or the single-agent
\* chain with the library available.
FastPath == ~HAS_ORTOOLS \/ num_agents = 1

\* C26: the fast paths never raise, whether or not the global order
\* respects the dependencies; when it does, every action arrives no earlier
\* than each of its prerequisite actions departs.
C26_FastPathDependencies ==
    FastPath =>
        /\ pc # "raised"
        /\ error = ""
        /\ (Returned /\ OrderRespectsDepends) =>
              \A x \in DOMAIN graph : \A y \in graph[x].depends \cap DOMAIN graph :
                  AssignmentOf(x).arrive >= AssignmentOf(y).depart

\* A fallback schedule where an action and its prerequisite are given to
\* different agents.
C26_Witness ==
    /\ FastPath
    /\ Returned
    /\ OrderRespectsDepends
    /\ \E x \in DOMAIN graph : \E y \in graph[x].depends \cap DOMAIN graph :
          /\ AssignmentOf(x).agent # AssignmentOf(y).agent
          /\ AssignmentOf(x).arrive = AssignmentOf(y).depart

\* C27: once constructed, ordered_links is a permutation of the graph's
\* edges in ascending 'order', edges of equal 'order' in ascending order of
\* the edge tuple (origin first, then target); ordered_origins[k] is the
\* origin of ordered_links[k] and ordered_links_depends[k] its 'depends'.
C27_ConstructorSort ==
    (pc # "new") =>
        /\ Len(ordered_links) = Cardinality(DOMAIN graph)
        /\ {ordered_links[k] : k \in DOMAIN ordered_links} = DOMAIN graph
        /\ \A j, k \in DOMAIN ordered_links :
              (j < k) =>
                  LET a == ordered_links[j]
                      b == ordered_links[k]
                  IN  \/ graph[a].order < graph[b].order
                      \/ /\ graph[a].order = graph[b].order
                         /\ (a[1] < b[1] \/ (a[1] = b[1] /\ a[2] < b[2]))
        /\ DOMAIN ordered_origins = DOMAIN ordered_links
        /\ DOMAIN ordered_links_depends = DOMAIN ordered_links
        /\ \A k \in DOMAIN ordered_links :
              /\ ordered_origins[k] = ordered_links[k][1]
              /\ ordered_links_depends[k] = graph[ordered_links[k]].depends

\* A constructed Router whose graph has two edges of equal 'order' and an
\* edge of smaller 'order' with a larger tuple.
C27_Witness ==
    /\ pc = "ready"
    /\ Len(ordered_links) = MaxLinks
    /\ graph[ordered_links[2]].order = graph[ordered_links[3]].order
    /\ graph[ordered_links[1]].order < graph[ordered_links[2]].order
    /\ ordered_links[1][1] > ordered_links[2][1]

\* C28: for a graph without edges the call ends by returning the empty
\* list, raising nothing, in every mode and for every num_agents.
C28_EmptyReturnsEmpty ==
    (DOMAIN graph = {} /\ pc \in {"returned", "raised"}) =>
        /\ pc = "returned"
        /\ result = <<>>
        /\ error = ""

\* The list each of the two one-agent paths gives for the inputs of the
\* call: the path taken gives the returned list, the other one its list as
\* a function of the inputs.
FallbackList == IF HAS_ORTOOLS THEN FallbackAlone ELSE result
SingleList == IF HAS_ORTOOLS THEN result ELSE SingleAlone(NumActions)
NoTravelBetweenOrigins ==
    \A k \in 2..NumActions : TravelTime(ActionAt(k - 1)[1], ActionAt(k)[1]) = 0

\* C29: with one agent the fallback and the single-agent path give the same
\* (agent, location, link) triples in the same order; the single-agent
\* arrive and depart of the k-th action exceed the fallback's by the travel
\* time accumulated up to it, so the two lists are equal exactly when the
\* travel time between every two consecutive origins is 0.
C29_FallbackVersusSingle ==
    (Returned /\ num_agents = 1) =>
        /\ Len(SingleList) = Len(FallbackList)
        /\ \A k \in DOMAIN SingleList :
              /\ SingleList[k].agent = FallbackList[k].agent
              /\ SingleList[k].location = FallbackList[k].location
              /\ SingleList[k].link = FallbackList[k].link
              /\ SingleList[k].arrive = FallbackList[k].arrive + TravelSum(k)
              /\ SingleList[k].depart = FallbackList[k].depart + TravelSum(k)
        /\ (SingleList = FallbackList) <=> NoTravelBetweenOrigins

\* A single-agent run over origins that are apart: its times differ from
\* the fallback's.
C29_Witness ==
    /\ Returned
    /\ num_agents = 1
    /\ HAS_ORTOOLS
    /\ Len(result) = MaxLinks
    /\ ~NoTravelBetweenOrigins
    /\ result[MaxLinks].arrive > FallbackAlone[MaxLinks].arrive

\* What the claim says of one prune_jobs(max_jobs, max_age_s) call that
\* takes the job manager from m to n.
PrunePostcondition(m, n) ==
    LET max_jobs == n.last.max_jobs
        max_age_s == n.last.max_age_s
        kept == DOMAIN n.jobs
        survivors == {id \in DOMAIN m.jobs :
                         /\ m.now - m.jobs[id].t0 <= max_age_s
                         /\ ~(m.jobs[id].done /\ m.now - m.jobs[id].t0 > DoneAge)}
    IN  /\ kept \subseteq survivors
        /\ \A id \in kept : n.jobs[id] = m.jobs[id]
        /\ Cardinality(kept) <= max_jobs
        /\ (Cardinality(survivors) > max_jobs) =>
              /\ Cardinality(kept) = max_jobs
              /\ \A k \in kept : \A r \in survivors \ kept :
                    m.jobs[r].t0 <= m.jobs[k].t0
        /\ \A id \in DOMAIN m.jobs \ kept :
              (m.futures[id] \notin {"finished", "cancelled"}) =>
                  id \in n.last.cancel_called

\* C30: after prune_jobs(max_jobs, max_age_s) the registry holds at most
\* max_jobs jobs, none older than max_age_s and none done and older than
\* DoneAge; when more than max_jobs jobs survive the age rules the max_jobs
\* with the latest t0 are kept; every removed job whose Future was not done
\* had cancel() called.
C30_PruneJobs ==
    [][jm'.last.called => PrunePostcondition(jm, jm')]_vars
====
